---------------------------- MODULE Spec2Model ----------------------------
(***************************************************************************)
(* WMD Player: the in-memory playback order (src/app.js) and the IndexedDB *)
(* storage module (src/storage.js), as one state machine.                  *)
(*                                                                         *)
(* A step is one event-loop task of the page: a UI event handler, a        *)
(* request's onsuccess/onerror handler together with the promise           *)
(* continuations it releases, a transaction's completion, or a timer.      *)
(* IndexedDB is modelled by its rules: a transaction's writes reach the    *)
(* stores when it completes and never when it aborts; transactions over    *)
(* the same stores run in the order of their creation, read-only ones      *)
(* side by side; key generators only grow, and an abort takes back the     *)
(* keys the transaction drew.                                              *)
(***************************************************************************)
EXTENDS Integers, Sequences, FiniteSets, TLC

\* ------------------------------------------------------------------ bounds

\* User-issued storage operations (save, load, delete) that may be pending.
MaxOps == 2
\* Playlist keys the key generator may hand out.
MaxPlaylists == 2
\* Values of the clock that stamps createdAt.
MaxClock == 1

\* ------------------------------------------------------- JavaScript values

\* `undefined`, NaN and null, as integers no index or key takes.
Undefined == -200
NaN == -100
Null == 0

IsNum(x) == x \notin {Undefined, NaN}

\* a + b on numbers, NaN as soon as an operand is undefined or NaN.
JsAdd(a, b) == IF IsNum(a) /\ IsNum(b) THEN a + b ELSE NaN

\* a % b: NaN for a zero divisor, the sign of the dividend otherwise.
JsMod(a, b) ==
    IF ~IsNum(a) \/ ~IsNum(b) \/ b = 0 THEN NaN
    ELSE IF a >= 0 THEN a % b ELSE 0 - ((0 - a) % b)

\* arr[i] for a 0-based index: undefined outside the array (and for NaN).
JsAt(arr, i) ==
    IF IsNum(i) /\ i >= 0 /\ i < Len(arr) THEN arr[i + 1] ELSE Undefined

\* arr.indexOf(x): 0-based position of the first x, -1 when absent.
IndexOf(arr, x) ==
    IF \E k \in 1..Len(arr) : arr[k] = x
    THEN (CHOOSE k \in 1..Len(arr) :
              arr[k] = x /\ \A m \in 1..(k - 1) : arr[m] # x) - 1
    ELSE -1

\* ------------------------------------------------------------------- files

\* The files a user can pick: name, MIME type as the browser reports it
\* (empty when unknown) and content; BlobSize is the content's byte count.
AllFiles ==
    { [name |-> "01 - a.mp3", type |-> "audio/mpeg", blob |-> "A"],
      [name |-> "b.mp3",      type |-> "",           blob |-> "B"],
      [name |-> "c.mp3",      type |-> "audio/mpeg", blob |-> "C"],
      [name |-> "d.wav",      type |-> "audio/wav",  blob |-> "D"],
      [name |-> "notes.txt",  type |-> "text/plain", blob |-> "N"] }

\* The folders the user can hand to the folder input or drop on the page.
Folders ==
    { {f \in AllFiles : f.name \in {"01 - a.mp3", "notes.txt"}},
      {f \in AllFiles : f.name \in {"01 - a.mp3", "b.mp3"}},
      {f \in AllFiles : f.name = "notes.txt"} }

\* Larger folders, for the playback order.
Albums ==
    { {f \in AllFiles : f.name \in {"01 - a.mp3", "b.mp3", "c.mp3"}},
      AllFiles }

BlobSize(b) ==
    CASE b = "A" -> 3 [] b = "B" -> 5 [] b = "C" -> 2 [] b = "D" -> 4 [] OTHER -> 1

\* file.type.startsWith('audio/') || file.name.endsWith('.mp3')
IsAudio(f) ==
    \/ f.type \in {"audio/mpeg", "audio/wav"}
    \/ f.name \in {"01 - a.mp3", "b.mp3", "c.mp3"}

\* cleanTrackName on the names above: extension and leading number removed.
CleanTrackName(n) ==
    CASE n = "01 - a.mp3" -> "a" [] n = "b.mp3" -> "b" [] n = "c.mp3" -> "c"
      [] n = "d.wav" -> "d" [] OTHER -> n

\* Position of a name under localeCompare.
NameRank(n) ==
    CASE n = "01 - a.mp3" -> 1 [] n = "b.mp3" -> 2 [] n = "c.mp3" -> 3
      [] n = "d.wav" -> 4 [] OTHER -> 5

\* The set S as the sequence ordered by key[x], keys distinct.
RECURSIVE SortBy(_, _)
SortBy(S, key) ==
    IF S = {} THEN <<>>
    ELSE LET m == CHOOSE x \in S : \A y \in S : key[x] <= key[y]
         IN  <<m>> \o SortBy(S \ {m}, key)

\* state.tracks as loadFiles builds it from the picked files.
TracksOfFiles(files) ==
    LET audio  == {f \in files : IsAudio(f)}
        sorted == SortBy(audio, [f \in audio |-> NameRank(f.name)])
    IN  [k \in 1..Len(sorted) |->
            [name |-> CleanTrackName(sorted[k].name), file |-> sorted[k]]]

\* ------------------------------------------------------------- object URLs

\* The object URLs URL.createObjectURL hands out while a track list is
\* built, one per track; every call makes a fresh URL, so the list's
\* generation is part of the URL.
ObjectUrls(gen, trks) == {<<gen, k>> : k \in 1..Len(trks)}

\* The URLs revoked when state.tracks is assigned a new list: loadFiles and
\* loadSavedPlaylist call URL.revokeObjectURL for none of the old list's.
RevokedOnReplace(old) == {}

\* The URLs live once `new` has replaced `old`, whose URLs were live.
LiveAfterReplace(old, new) ==
    (ObjectUrls("old", old) \cup ObjectUrls("new", new)) \ RevokedOnReplace(old)

\* ----------------------------------------------------------------- shuffle

\* The naive shuffle: j drawn from the whole array at every position.
DrawSeqs_Naive(n) == [1..(n - 1) -> 0..(n - 1)]

\* The draws of one shuffle: j for every i from n-1 down to 1, 0 <= j <= i.
DrawSeqs(n) == {d \in [1..(n - 1) -> 0..(n - 1)] : \A i \in 1..(n - 1) : d[i] <= i}

\* A swap that loses arr[i]: the second assignment reads the new value.
Swap_Overwrite(arr, i, j) == [arr EXCEPT ![i + 1] = arr[j + 1]]

Swap(arr, i, j) == [arr EXCEPT ![i + 1] = arr[j + 1], ![j + 1] = arr[i + 1]]

\* The loop of generateShuffledOrder from position i down to 1.
RECURSIVE FisherYates(_, _, _)
FisherYates(arr, i, draws) ==
    IF i <= 0 THEN arr
    ELSE FisherYates(Swap(arr, i, draws[i]), i - 1, draws)

\* state.shuffledOrder after generateShuffledOrder with the given draws.
GenerateShuffledOrder(n, draws) ==
    FisherYates([k \in 1..n |-> k - 1], n - 1, draws)

\* ----------------------------------------------------- storage: playlists

RECURSIVE SumSizes(_)
SumSizes(rows) ==
    IF rows = {} THEN 0
    ELSE LET r == CHOOSE x \in rows : TRUE IN r.size + SumSizes(rows \ {r})

\* The metadata savePlaylist adds first; the store assigns its key.
NewPlaylist(id, name, trks, now) ==
    [id |-> id, name |-> name, trackCount |-> Len(trks),
     createdAt |-> now, totalSize |-> 0]

\* trackData numbering the tracks from the end of the list.
TrackData_Reversed(key, playlistId, trks, i) ==
    LET track == trks[i + 1]
    IN  [id |-> key, playlistId |-> playlistId, name |-> track.name,
         originalName |-> track.file.name, order |-> Len(trks) - 1 - i,
         audioBlob |-> track.file.blob, size |-> BlobSize(track.file.blob),
         type |-> IF track.file.type = "" THEN "audio/mpeg" ELSE track.file.type]

\* trackData of tracks[i] (0-based), stored under the key the store assigns.
TrackData(key, playlistId, trks, i) ==
    LET track == trks[i + 1]
    IN  [id |-> key, playlistId |-> playlistId, name |-> track.name,
         originalName |-> track.file.name, order |-> i,
         audioBlob |-> track.file.blob, size |-> BlobSize(track.file.blob),
         type |-> IF track.file.type = "" THEN "audio/mpeg" ELSE track.file.type]

\* A loop that stops one track short (i < tracks.length - 1).
SavedTrackRows_OffByOne(playlistId, trks, gen) ==
    {TrackData(gen + i + 1, playlistId, trks, i) : i \in 0..(Len(trks) - 2)}

\* The track rows the loop of savePlaylist adds; keys follow the generator.
SavedTrackRows(playlistId, trks, gen) ==
    {TrackData(gen + i + 1, playlistId, trks, i) : i \in 0..(Len(trks) - 1)}

\* A savePlaylist without the final put: the row added first stays.
PatchedPlaylist_NoPut(playlist, rows) == playlist

\* The playlist row savePlaylist puts last, totalSize patched.
PatchedPlaylist(playlist, rows) ==
    [playlist EXCEPT !.totalSize = SumSizes(rows)]

\* index('playlistId') restricted to one key.
TracksOfPlaylist(trs, playlistId) == {t \in trs : t.playlistId = playlistId}

\* playlistStore.get(id), as the set of rows found (empty: undefined).
GetPlaylist(pls, id) == {p \in pls : p.id = id}

\* The orders in which a request may hand back the rows of S.
RetrievalOrders(S) ==
    {s \in [1..Cardinality(S) -> S] : \A a, b \in 1..Cardinality(S) : s[a] = s[b] => a = b}

\* Array.prototype.sort (stable) with the comparator a.key - b.key.
RECURSIVE InsertByKey(_, _, _)
InsertByKey(sorted, x, key) ==
    IF sorted = <<>> THEN <<x>>
    ELSE IF key[x] < key[Head(sorted)] THEN <<x>> \o sorted
    ELSE <<Head(sorted)>> \o InsertByKey(Tail(sorted), x, key)

RECURSIVE StableSort(_, _)
StableSort(arr, key) ==
    IF arr = <<>> THEN <<>>
    ELSE InsertByKey(StableSort(SubSeq(arr, 1, Len(arr) - 1), key), arr[Len(arr)], key)

Range(arr) == {arr[k] : k \in 1..Len(arr)}

\* A loadPlaylist that takes the rows as the index hands them back.
SortTracks_Unsorted(rows) == rows

\* tracks.sort((a, b) => a.order - b.order) in loadPlaylist.
SortTracks(rows) == StableSort(rows, [r \in Range(rows) |-> r.order])

\* processedTracks of loadPlaylist: one playable track per stored row.
ProcessedTracks(rows) ==
    [k \in 1..Len(rows) |->
        [name |-> rows[k].name,
         file |-> [name |-> rows[k].originalName, type |-> rows[k].type,
                   blob |-> rows[k].audioBlob]]]

\* What loadPlaylist resolves with when the index hands back `retrieved`.
LoadedTracks(retrieved) == ProcessedTracks(SortTracks(retrieved))

\* getAllPlaylists losing the oldest playlist.
GetAllPlaylists_DropsOldest(pls) ==
    LET byKey == SortBy(pls, [p \in pls |-> p.id])
        all   == StableSort(byKey, [p \in pls |-> 0 - p.createdAt])
    IN  SubSeq(all, 1, Len(all) - 1)

\* getAllPlaylists with the comparator turned round (a - b).
GetAllPlaylists_OldestFirst(pls) ==
    LET byKey == SortBy(pls, [p \in pls |-> p.id])
    IN  StableSort(byKey, [p \in pls |-> p.createdAt])

\* getAllPlaylists: every row in key order, then most recent first.
GetAllPlaylists(pls) ==
    LET byKey == SortBy(pls, [p \in pls |-> p.id])
    IN  StableSort(byKey, [p \in pls |-> 0 - p.createdAt])

\* A cursor that is never continued: it visits the first row only.
CursorRemaining_NoContinue(trs, playlistId, visited) ==
    IF visited = {} THEN TracksOfPlaylist(trs, playlistId) ELSE {}

\* The rows the cursor of deletePlaylist has still to visit.
CursorRemaining(trs, playlistId, visited) ==
    {t \in TracksOfPlaylist(trs, playlistId) : t.id \notin visited}

\* The stores after deletePlaylist's transaction completes.
PlaylistsAfterDelete(pls, playlistId) == pls \ GetPlaylist(pls, playlistId)

\* A deletePlaylist that deletes the playlist row only.
TracksAfterDelete_NoCascade(trs, visited) == trs

TracksAfterDelete(trs, visited) == {t \in trs : t.id \notin visited}

\* -------------------------------------------------------- storage: schema

\* STORES, and the indexes onupgradeneeded creates, each with its store.
StoreNames == {"playlists", "tracks", "preferences"}

StoreIndexes ==
    {<<"playlists", "name">>, <<"playlists", "createdAt">>,
     <<"tracks", "playlistId">>, <<"tracks", "order">>}

\* A database by its object stores and their indexes: none yet, or all.
EmptySchema == [stores |-> {}, indexes |-> {}]
FullSchema == [stores |-> StoreNames, indexes |-> StoreIndexes]

\* The databases an upgrade may find: any of the stores, each with any of
\* its indexes.
Schemas ==
    {[stores |-> S, indexes |-> I] :
        S \in SUBSET StoreNames, I \in SUBSET StoreIndexes}
    \cap {db \in [stores : SUBSET StoreNames, indexes : SUBSET StoreIndexes] :
             \A ix \in db.indexes : ix[1] \in db.stores}

\* request.onupgradeneeded: every store the database lacks is created with
\* its indexes; a store it has is left as it is.
OnUpgradeNeeded(db) ==
    [stores  |-> db.stores \cup StoreNames,
     indexes |-> db.indexes \cup {ix \in StoreIndexes : ix[1] \notin db.stores}]

\* --------------------------------------------------- storage: preferences

\* The preferences store: per key the set holding its stored value, empty
\* when the key has no record.
NoPreferences == [volume |-> {}, shuffleMode |-> {}, lastTrackIndex |-> {}]

\* What an earlier session may have left in the preferences store.
StoredPreferences ==
    {NoPreferences} \cup
    {[volume |-> {50}, shuffleMode |-> {b}, lastTrackIndex |-> {0}] : b \in BOOLEAN}

\* savePreferences clearing the store before its puts.
SavePreferences_ClearFirst(store, prefs) == prefs

\* savePreferences: one put per entry of prefs, other keys untouched.
SavePreferences(store, prefs) ==
    [volume         |-> IF prefs.volume # {} THEN prefs.volume ELSE store.volume,
     shuffleMode    |-> IF prefs.shuffleMode # {} THEN prefs.shuffleMode
                        ELSE store.shuffleMode,
     lastTrackIndex |-> IF prefs.lastTrackIndex # {} THEN prefs.lastTrackIndex
                        ELSE store.lastTrackIndex]

\* The records of the preferences store as getAll returns them, in the
\* order of their keys.
PreferenceRecords(store) ==
    LET record(k) == IF store[k] = {} THEN <<>>
                     ELSE <<[key |-> k, value |-> CHOOSE v \in store[k] : TRUE]>>
    IN  record("lastTrackIndex") \o record("shuffleMode") \o record("volume")

\* The property of key k after the forEach of loadPreferences: the value of
\* the last record under k.
PropertyOf(records, k) ==
    records[CHOOSE i \in 1..Len(records) :
                /\ records[i].key = k
                /\ \A j \in (i + 1)..Len(records) : records[j].key # k].value

\* loadPreferences filling in the page's defaults for the keys it knows.
LoadPreferences_WithDefaults(store) ==
    LET records == PreferenceRecords(store)
        stored  == {records[i].key : i \in 1..Len(records)}
    IN  [k \in stored \cup {"volume", "shuffleMode"} |->
            IF k \in stored THEN PropertyOf(records, k)
            ELSE IF k = "volume" THEN 75 ELSE FALSE]

\* loadPreferences: the object with one property per record of the store.
LoadPreferences(store) ==
    LET records == PreferenceRecords(store)
    IN  [k \in {records[i].key : i \in 1..Len(records)} |-> PropertyOf(records, k)]

\* ------------------------------------------------------------------- state

VARIABLES
    tracks,                 \* state.tracks
    currentIndex,           \* state.currentIndex
    shuffleMode,            \* state.shuffleMode
    shuffledOrder,          \* state.shuffledOrder
    shuffledIndex,          \* state.shuffledIndex
    volume,                 \* state.volume, in percent
    currentPlaylistId,      \* state.currentPlaylistId
    savedPlaylists,         \* state.savedPlaylists, as rendered
    saveBtnDisabled,        \* elements.savePlaylistBtn.disabled
    saveBtnLabel,           \* elements.savePlaylistBtn.innerHTML
    saveBtnTimers,          \* pending 1500 ms timers, each with originalText
    preferenceSaveTimeout,  \* whether the debounce timer is pending
    initPc,                 \* where init / initializeStorage stands
    idbOk,                  \* whether indexedDB.open succeeds
    playlists,              \* committed rows of the playlists store
    trackRows,              \* committed rows of the tracks store
    playlistKeyGen,         \* key generator of the playlists store
    trackKeyGen,            \* key generator of the tracks store
    preferences,            \* committed rows of the preferences store
    clock,                  \* the last value new Date() returned
    prefsTx,                \* maps of savePreferences calls not yet settled
    schema,                 \* the database's object stores, each with its indexes
    txq,                    \* unfinished transactions, in creation order
    infoq,                  \* operations awaiting a later promise
    audioVolume,            \* elements.audio.volume, in percent
    swState,                \* the service worker's lifecycle state
    cacheNames,             \* the names caches.keys() would list
    swCache,                \* the entries of the cache named CACHE_NAME
    fetches,                \* fetch events the worker has not finished
    answered                \* how the last request was answered

playVars == <<tracks, currentIndex, shuffleMode, shuffledOrder, shuffledIndex>>
btnVars == <<saveBtnDisabled, saveBtnLabel, saveBtnTimers>>
storeVars == <<playlists, trackRows, playlistKeyGen, trackKeyGen>>
swVars == <<swState, cacheNames, swCache, fetches, answered>>
envVars == <<audioVolume, swVars>>
pageVars ==
    <<tracks, currentIndex, shuffleMode, shuffledOrder, shuffledIndex, volume,
      currentPlaylistId, savedPlaylists, saveBtnDisabled, saveBtnLabel,
      saveBtnTimers, preferenceSaveTimeout, initPc, idbOk, playlists, trackRows,
      playlistKeyGen, trackKeyGen, preferences, prefsTx, schema, clock, txq,
      infoq, audioVolume>>
vars ==
    <<tracks, currentIndex, shuffleMode, shuffledOrder, shuffledIndex, volume,
      currentPlaylistId, savedPlaylists, saveBtnDisabled, saveBtnLabel,
      saveBtnTimers, preferenceSaveTimeout, initPc, idbOk, playlists, trackRows,
      playlistKeyGen, trackKeyGen, preferences, prefsTx, schema, clock, txq,
      infoq, audioVolume, swState, cacheNames, swCache, fetches, answered>>

\* No answer given yet.
NoAnswer == [url |-> "", method |-> "", source |-> "none", network |-> FALSE]

\* The service worker as registerServiceWorker finds it on a first visit:
\* the script parsed, no cache made.
NoWorker ==
    /\ swState = "parsed"
    /\ cacheNames = {}
    /\ swCache = {}
    /\ fetches = <<>>
    /\ answered = NoAnswer

\* Names the user may type into the prompt of saveCurrentPlaylist.
PlaylistNames == {"Road Trip"}

\* The page once app.js has run, with what an earlier session stored.
InitPage ==
    /\ tracks = <<>>
    /\ currentIndex = 0
    /\ shuffleMode = FALSE
    /\ shuffledOrder = <<>>
    /\ shuffledIndex = 0
    /\ volume = 75
    /\ currentPlaylistId = Null
    /\ savedPlaylists = <<>>
    /\ saveBtnDisabled \in BOOLEAN
    /\ saveBtnLabel = "Save"
    /\ saveBtnTimers = <<>>
    /\ preferenceSaveTimeout = <<>>
    /\ initPc = "initDB"
    /\ idbOk \in BOOLEAN
    /\ playlists = {}
    /\ trackRows = {}
    /\ playlistKeyGen = 0
    /\ trackKeyGen = 0
    /\ preferences \in StoredPreferences
    /\ prefsTx = <<>>
    /\ clock = 0
    /\ txq = <<>>
    /\ infoq = <<>>
    /\ audioVolume = 100

\* The database is new, or an earlier session of this version made it; one
\* that holds preferences is not new.
Init ==
    /\ InitPage
    /\ NoWorker
    /\ schema \in IF preferences = NoPreferences THEN {EmptySchema, FullSchema}
                  ELSE {FullSchema}

\* ------------------------------------------------------------ transactions

Tx(kind, stage, pid, name, trks, now, orig, origin) ==
    [kind |-> kind, stage |-> stage, pid |-> pid, name |-> name, trks |-> trks,
     now |-> now, orig |-> orig, visited |-> {}, origin |-> origin]

ListTx(origin, pid, orig) == Tx("list", "getAll", pid, "", <<>>, 0, orig, origin)

Remove(q, i) == SubSeq(q, 1, i - 1) \o SubSeq(q, i + 1, Len(q))

\* Transaction i may run: a read-only one once no read-write one created
\* before it is unfinished, a read-write one once it is the oldest.
Runnable(i) ==
    /\ i \in 1..Len(txq)
    /\ IF txq[i].kind \in {"load", "list"}
       THEN \A j \in 1..(i - 1) : txq[j].kind \in {"load", "list"}
       ELSE i = 1

\* Save, load and delete operations that have not run to their end.
PendingOps ==
    Cardinality({i \in 1..Len(txq) : txq[i].kind \in {"save", "load", "delete"}})
    + Cardinality({i \in 1..Len(txq) :
        /\ txq[i].kind = "list"
        /\ txq[i].origin # "init"
        /\ ~\E j \in 1..Len(txq) : txq[j].kind = "save" /\ txq[j].pid = txq[i].pid})
    + Len(infoq) + Len(saveBtnTimers)

\* ---------------------------------------------------------------- playback

\* The delay of savePreferencesDebounced, and the step of time.
DebounceMs == 1000
TickMs == 500

\* savePreferences calls that may be unsettled at once.
MaxPrefsTx == 1

\* Fetch events the service worker may have unfinished at once.
MaxFetches == 2

\* The slider positions the model draws from.
SliderValues == {0, 50, 100}

\* clearTimeout(preferenceSaveTimeout): the timer set last is cancelled if
\* it is still pending.
ClearTimeout(timers) ==
    IF timers = <<>> THEN timers ELSE SubSeq(timers, 1, Len(timers) - 1)

\* savePreferencesDebounced without its clearTimeout.
SavePreferencesDebounced_NoClear(timers) == Append(timers, DebounceMs)

\* savePreferencesDebounced: the pending timers by the time left to each,
\* the one preferenceSaveTimeout names last.
SavePreferencesDebounced(timers) == Append(ClearTimeout(timers), DebounceMs)

\* How loadTrack(index) ends with n tracks: "return" at the range check,
\* "loaded", or "throws" (a non-number passes the check, becomes
\* state.currentIndex and the read of track.url throws).
LoadTrackOutcome(index, n) ==
    IF IsNum(index)
    THEN IF index < 0 \/ index >= n THEN "return" ELSE "loaded"
    ELSE "throws"

\* state.currentIndex once loadTrack(index) has ended, from ci with n tracks.
AfterLoadTrack(ci, index, n) ==
    IF LoadTrackOutcome(index, n) = "return" THEN ci ELSE index

\* playTrack(index) over the track list trks and permutation order, with
\* state.shuffledIndex standing at si when it is called.
PlayTrack(index, trks, order, si) ==
    LET outcome == LoadTrackOutcome(index, Len(trks))
    IN  /\ currentIndex' = AfterLoadTrack(currentIndex, index, Len(trks))
        /\ preferenceSaveTimeout' =
               IF outcome = "loaded" THEN SavePreferencesDebounced(preferenceSaveTimeout)
               ELSE preferenceSaveTimeout
        /\ shuffledIndex' =
               IF outcome # "throws" /\ shuffleMode THEN IndexOf(order, index) ELSE si

\* The index playNext hands to playTrack, and the cursor it leaves.
NextCursor == JsMod(JsAdd(shuffledIndex, 1), Len(shuffledOrder))

\* Sequential order: the index after and before ci among n tracks.
SeqNextIndex(ci, n) == JsMod(JsAdd(ci, 1), n)

SeqPrevIndex(ci, n) == JsMod(JsAdd(JsAdd(ci, -1), n), n)

NextIndex ==
    IF shuffleMode THEN JsAt(shuffledOrder, NextCursor)
    ELSE SeqNextIndex(currentIndex, Len(tracks))

PreviousCursor ==
    JsMod(JsAdd(JsAdd(shuffledIndex, -1), Len(shuffledOrder)), Len(shuffledOrder))

PreviousIndex ==
    IF shuffleMode THEN JsAt(shuffledOrder, PreviousCursor)
    ELSE SeqPrevIndex(currentIndex, Len(tracks))

\* loadFiles(files) for one of the given folders.
LoadFilesOf(folders) ==
    \E files \in folders :
        /\ files # {}
        /\ LET trks == TracksOfFiles(files)
           IN  IF trks = <<>>
               THEN UNCHANGED vars
               ELSE /\ tracks' = trks
                    /\ \E draws \in IF shuffleMode THEN DrawSeqs(Len(trks)) ELSE {<<>>} :
                           shuffledOrder' =
                               IF shuffleMode THEN GenerateShuffledOrder(Len(trks), draws)
                               ELSE shuffledOrder
                    /\ saveBtnDisabled' = FALSE
                    /\ currentPlaylistId' = Null
                    /\ currentIndex' = 0
                    /\ shuffledIndex' = IF shuffleMode THEN 0 ELSE shuffledIndex
                    /\ preferenceSaveTimeout' = SavePreferencesDebounced(preferenceSaveTimeout)
                    /\ UNCHANGED <<shuffleMode, volume, savedPlaylists, saveBtnLabel,
                                   saveBtnTimers, initPc, idbOk, envVars, storeVars,
                                   preferences, prefsTx, schema, clock, txq, infoq>>

\* loadFiles: the folder input's change event or a drop.
LoadFiles == LoadFilesOf(Folders)

LoadAlbum == LoadFilesOf(Albums)

\* loadFiles for a folder of one audio file and one file of another kind.
LoadSingle == LoadFilesOf({{f \in AllFiles : f.name \in {"01 - a.mp3", "notes.txt"}}})

\* A click on an item of the rendered playlist.
PlayTrackClick ==
    \E index \in 0..(Len(tracks) - 1) :
        /\ PlayTrack(index, tracks, shuffledOrder, shuffledIndex)
        /\ UNCHANGED <<tracks, shuffleMode, shuffledOrder, volume, currentPlaylistId,
                       savedPlaylists, btnVars, initPc, idbOk, envVars, storeVars,
                       preferences, prefsTx, schema, clock, txq, infoq>>

\* A playNext without its empty-list return.
PlayNext_NoEmptyCheck ==
    /\ PlayTrack(NextIndex, tracks, shuffledOrder,
                 IF shuffleMode THEN NextCursor ELSE shuffledIndex)
    /\ UNCHANGED <<tracks, shuffleMode, shuffledOrder, volume, currentPlaylistId,
                   savedPlaylists, btnVars, initPc, idbOk, envVars, storeVars,
                   preferences, prefsTx, schema, clock, txq, infoq>>

\* playNext: the next button, the ended event, ArrowRight, the media session.
PlayNext ==
    IF Len(tracks) = 0
    THEN UNCHANGED vars
    ELSE /\ PlayTrack(NextIndex, tracks, shuffledOrder,
                      IF shuffleMode THEN NextCursor ELSE shuffledIndex)
         /\ UNCHANGED <<tracks, shuffleMode, shuffledOrder, volume, currentPlaylistId,
                        savedPlaylists, btnVars, initPc, idbOk, envVars, storeVars,
                        preferences, prefsTx, schema, clock, txq, infoq>>

\* playPrevious; restart stands for audio.currentTime > 3.
PlayPreviousAt(restart) ==
    IF Len(tracks) = 0 \/ restart
    THEN UNCHANGED vars
    ELSE /\ PlayTrack(PreviousIndex, tracks, shuffledOrder,
                      IF shuffleMode THEN PreviousCursor ELSE shuffledIndex)
         /\ UNCHANGED <<tracks, shuffleMode, shuffledOrder, volume,
                        currentPlaylistId, savedPlaylists, btnVars, initPc,
                        idbOk, envVars, storeVars, preferences, prefsTx, schema, clock, txq, infoq>>

PlayPrevious == \E restart \in BOOLEAN : PlayPreviousAt(restart)

\* toggleShuffle: the shuffle button or the S key.
ToggleShuffle ==
    /\ shuffleMode' = ~shuffleMode
    /\ IF ~shuffleMode /\ Len(tracks) > 0
       THEN \E draws \in DrawSeqs(Len(tracks)) :
               /\ shuffledOrder' = GenerateShuffledOrder(Len(tracks), draws)
               /\ shuffledIndex' = IndexOf(shuffledOrder', currentIndex)
       ELSE UNCHANGED <<shuffledOrder, shuffledIndex>>
    /\ preferenceSaveTimeout' = SavePreferencesDebounced(preferenceSaveTimeout)
    /\ UNCHANGED <<tracks, currentIndex, volume, currentPlaylistId, savedPlaylists,
                   btnVars, initPc, idbOk, envVars, storeVars, preferences, prefsTx, schema, clock, txq, infoq>>

\* The volume slider's input event.
VolumeInput ==
    /\ \E value \in SliderValues : volume' = value
    /\ audioVolume' = volume'
    /\ preferenceSaveTimeout' = SavePreferencesDebounced(preferenceSaveTimeout)
    /\ UNCHANGED <<playVars, currentPlaylistId, savedPlaylists, btnVars, initPc,
                   idbOk, swVars, storeVars, preferences, prefsTx, schema, clock, txq, infoq>>

\* Math.max(0, Math.min(1, state.volume + delta)), in percent.
ClampVolume(v) == IF v < 0 THEN 0 ELSE IF v > 100 THEN 100 ELSE v

\* adjustVolume(delta): ArrowUp and ArrowDown, a tenth up or down.
AdjustVolume ==
    /\ \E delta \in {-10, 10} : volume' = ClampVolume(volume + delta)
    /\ audioVolume' = volume'
    /\ preferenceSaveTimeout' = SavePreferencesDebounced(preferenceSaveTimeout)
    /\ UNCHANGED <<playVars, currentPlaylistId, savedPlaylists, btnVars, initPc,
                   idbOk, swVars, storeVars, preferences, prefsTx, schema, clock, txq, infoq>>

\* state.volume || 0.75, in percent: the volume toggleMute restores.
UnmutedVolume(v) == IF v = 0 THEN 75 ELSE v

\* toggleMute: the volume button or the M key.
ToggleMute ==
    /\ IF audioVolume > 0
       THEN volume' = audioVolume /\ audioVolume' = 0
       ELSE audioVolume' = UnmutedVolume(volume) /\ volume' = volume
    /\ preferenceSaveTimeout' = SavePreferencesDebounced(preferenceSaveTimeout)
    /\ UNCHANGED <<playVars, currentPlaylistId, savedPlaylists, btnVars, initPc,
                   idbOk, swVars, storeVars, preferences, prefsTx, schema, clock, txq, infoq>>

\* TickMs pass with no timer of savePreferencesDebounced due.
DebounceTick ==
    /\ preferenceSaveTimeout # <<>>
    /\ \A i \in 1..Len(preferenceSaveTimeout) : preferenceSaveTimeout[i] > 0
    /\ preferenceSaveTimeout' =
           [i \in 1..Len(preferenceSaveTimeout) |->
               IF preferenceSaveTimeout[i] > TickMs
               THEN preferenceSaveTimeout[i] - TickMs ELSE 0]
    /\ UNCHANGED <<playVars, volume, currentPlaylistId, savedPlaylists, btnVars,
                   initPc, idbOk, envVars, storeVars, preferences, prefsTx, schema, clock, txq, infoq>>

\* A due timer of savePreferencesDebounced fires and calls savePreferences
\* with the three values as they stand; with no database the call fails
\* and is logged.  A write requested while the read of loadPreferences is
\* in flight is queued behind it: initPc "loadPrefsAhead" is that read with
\* the write of prefsTx waiting for it.
PreferenceSaveTimer ==
    /\ initPc # "loadPrefsAhead"
    /\ \E i \in 1..Len(preferenceSaveTimeout) :
           /\ preferenceSaveTimeout[i] = 0
           /\ preferenceSaveTimeout' = Remove(preferenceSaveTimeout, i)
    /\ Len(prefsTx) < MaxPrefsTx
    /\ prefsTx' =
           IF idbOk
           THEN Append(prefsTx, [volume |-> {volume}, shuffleMode |-> {shuffleMode},
                                 lastTrackIndex |-> {currentIndex}])
           ELSE prefsTx
    /\ initPc' = IF initPc = "loadPrefs" THEN "loadPrefsAhead" ELSE initPc
    /\ UNCHANGED <<playVars, volume, currentPlaylistId, savedPlaylists, btnVars,
                   idbOk, envVars, storeVars, preferences, schema, clock, txq, infoq>>

\* The maps a caller of WMDStorage.savePreferences may pass: any of the
\* three keys present or not.
PreferenceMaps ==
    [volume : {{}, {0}, {100}}, shuffleMode : {{}, {TRUE}},
     lastTrackIndex : {{}, {1}}]

\* WMDStorage.savePreferences(prefs) called with any map: the transaction
\* is created and one put is requested per entry.
SavePreferencesCall ==
    /\ idbOk
    /\ initPc = "done"
    /\ Len(prefsTx) < MaxPrefsTx
    /\ \E prefs \in PreferenceMaps : prefsTx' = Append(prefsTx, prefs)
    /\ UNCHANGED <<playVars, volume, currentPlaylistId, savedPlaylists, btnVars,
                   preferenceSaveTimeout, initPc, idbOk, envVars, storeVars, preferences,
                   schema, clock, txq, infoq>>

\* transaction.oncomplete of savePreferences: the puts of the oldest
\* unsettled call become visible together and its promise resolves.
SavePreferencesComplete ==
    /\ prefsTx # <<>>
    /\ initPc # "loadPrefsAhead"
    /\ preferences' = SavePreferences(preferences, Head(prefsTx))
    /\ prefsTx' = Tail(prefsTx)
    /\ UNCHANGED <<playVars, volume, currentPlaylistId, savedPlaylists, btnVars,
                   preferenceSaveTimeout, initPc, idbOk, envVars, storeVars, schema, clock,
                   txq, infoq>>

\* The transaction of savePreferences fails instead: none of its puts is
\* kept and the promise rejects.
SavePreferencesError ==
    /\ prefsTx # <<>>
    /\ initPc # "loadPrefsAhead"
    /\ prefsTx' = Tail(prefsTx)
    /\ UNCHANGED <<playVars, volume, currentPlaylistId, savedPlaylists, btnVars,
                   preferenceSaveTimeout, initPc, idbOk, envVars, storeVars, preferences,
                   schema, clock, txq, infoq>>

\* ----------------------------------------------------------------- startup

\* initializeStorage going on to its next await whether or not
\* WMDStorage.init() has failed.
InitDBSettled_NoCatch ==
    /\ initPc = "initDB"
    /\ initPc' = "persist"
    /\ UNCHANGED <<playVars, volume, currentPlaylistId, savedPlaylists, btnVars,
                   preferenceSaveTimeout, idbOk, envVars, storeVars, preferences, prefsTx, schema,
                   clock, txq, infoq>>

\* initializeStorage: WMDStorage.init() settles, after onupgradeneeded when
\* the database is not one this version made.  A failure lands in the
\* catch block and init carries on to set the volume.
InitDBSettled ==
    /\ initPc = "initDB"
    /\ initPc' = IF idbOk THEN "persist" ELSE "done"
    /\ schema' = IF idbOk /\ schema # FullSchema THEN OnUpgradeNeeded(schema)
                 ELSE schema
    /\ audioVolume' = IF idbOk THEN audioVolume ELSE volume
    /\ UNCHANGED <<playVars, volume, currentPlaylistId, savedPlaylists, btnVars,
                   preferenceSaveTimeout, idbOk, swVars, storeVars, preferences, prefsTx,
                   clock, txq, infoq>>

\* requestPersistentStorage settles; a rejection lands in the catch block,
\* and init sets the volume.
PersistSettled ==
    /\ initPc = "persist"
    /\ \E outcome \in {"resolved", "rejected"} :
           initPc' = IF outcome = "resolved" THEN "loadPrefs" ELSE "done"
    /\ audioVolume' = IF initPc' = "done" THEN volume ELSE audioVolume
    /\ UNCHANGED <<playVars, volume, currentPlaylistId, savedPlaylists, btnVars,
                   preferenceSaveTimeout, idbOk, swVars, storeVars, preferences, prefsTx, schema, clock,
                   txq, infoq>>

\* loadPreferences resolves, after the writes requested before it and
\* before those requested after it: the stored volume and shuffleMode
\* replace the state's, and refreshSavedPlaylists opens the read of the
\* playlists.
LoadPreferencesSettled ==
    /\ \/ initPc = "loadPrefs" /\ prefsTx = <<>>
       \/ initPc = "loadPrefsAhead"
    /\ LET prefs == LoadPreferences(preferences)
       IN  /\ volume' = IF "volume" \in DOMAIN prefs THEN prefs.volume ELSE volume
           /\ shuffleMode' = IF "shuffleMode" \in DOMAIN prefs THEN prefs.shuffleMode
                             ELSE shuffleMode
           /\ audioVolume' = IF "volume" \in DOMAIN prefs THEN prefs.volume
                             ELSE audioVolume
    /\ txq' = Append(txq, ListTx("init", Null, "Save"))
    /\ initPc' = "refresh"
    /\ UNCHANGED <<tracks, currentIndex, shuffledOrder, shuffledIndex,
                   currentPlaylistId, savedPlaylists, btnVars,
                   preferenceSaveTimeout, idbOk, swVars, storeVars, preferences, prefsTx, schema, clock,
                   infoq>>

\* updateStorageInfo of initializeStorage settles; init sets the volume.
InitInfoSettled ==
    /\ initPc = "info"
    /\ initPc' = "done"
    /\ audioVolume' = volume
    /\ UNCHANGED <<playVars, volume, currentPlaylistId, savedPlaylists, btnVars,
                   preferenceSaveTimeout, idbOk, swVars, storeVars, preferences, prefsTx, schema, clock,
                   txq, infoq>>

\* ------------------------------------------------------------ savePlaylist

\* saveCurrentPlaylist up to the first request of savePlaylist: the button
\* is disabled, the transaction created and the playlist row added.  With
\* no database the rejection of initDB is on its way instead.
SaveCurrentPlaylist ==
    /\ ~saveBtnDisabled
    /\ Len(tracks) > 0
    /\ PendingOps < MaxOps
    /\ playlistKeyGen
         + Cardinality({i \in 1..Len(txq) : txq[i].kind = "save"}) < MaxPlaylists
    /\ saveBtnLabel' = "Saving"
    /\ saveBtnDisabled' = TRUE
    /\ \E name \in PlaylistNames, now \in clock..MaxClock :
           /\ clock' = IF idbOk THEN now ELSE clock
           /\ IF idbOk
              THEN /\ txq' = Append(txq, Tx("save", "add", Null, name, tracks, now,
                                           saveBtnLabel, "save"))
                   /\ infoq' = infoq
              ELSE /\ infoq' = Append(infoq, [origin |-> "saveFailed", pid |-> Null,
                                              orig |-> saveBtnLabel])
                   /\ txq' = txq
    /\ UNCHANGED <<playVars, volume, currentPlaylistId, savedPlaylists,
                   saveBtnTimers, preferenceSaveTimeout, initPc, idbOk, envVars, storeVars,
                   preferences, prefsTx, schema>>

\* playlistRequest.onsuccess: the key is drawn, every track row and the
\* patched playlist row are handed to the transaction, and the promise is
\* resolved; saveCurrentPlaylist goes on to refreshSavedPlaylists, whose read
\* queues behind the transaction.
SavePlaylistAdded ==
    /\ Runnable(1)
    /\ txq[1].kind = "save" /\ txq[1].stage = "add"
    /\ LET tx == [txq[1] EXCEPT !.stage = "written", !.pid = playlistKeyGen + 1]
       IN  txq' = Append([txq EXCEPT ![1] = tx], ListTx("save", tx.pid, tx.orig))
    /\ UNCHANGED <<playVars, volume, currentPlaylistId, savedPlaylists, btnVars,
                   preferenceSaveTimeout, initPc, idbOk, envVars, storeVars, preferences, prefsTx, schema,
                   clock, infoq>>

\* playlistRequest.onerror: the promise is rejected, the transaction aborts,
\* and the catch block of saveCurrentPlaylist restores the button.
SavePlaylistAddError ==
    /\ Runnable(1)
    /\ txq[1].kind = "save" /\ txq[1].stage = "add"
    /\ txq' = Remove(txq, 1)
    /\ saveBtnLabel' = txq[1].orig
    /\ saveBtnDisabled' = FALSE
    /\ UNCHANGED <<playVars, volume, currentPlaylistId, savedPlaylists,
                   saveBtnTimers, preferenceSaveTimeout, initPc, idbOk, envVars, storeVars,
                   preferences, prefsTx, schema, clock, infoq>>

\* The rows the transaction of savePlaylist holds once its handler has run.
SavePlaylistTrackRows(tx, gen) == SavedTrackRows(tx.pid, tx.trks, gen)

SavePlaylistRow(tx, gen) ==
    PatchedPlaylist(NewPlaylist(tx.pid, tx.name, tx.trks, tx.now),
                    SavePlaylistTrackRows(tx, gen))

\* The transaction of savePlaylist completes: its rows reach the stores.
SaveTxComplete ==
    /\ Runnable(1)
    /\ txq[1].kind = "save" /\ txq[1].stage = "written"
    /\ playlists' = playlists \cup {SavePlaylistRow(txq[1], trackKeyGen)}
    /\ trackRows' = trackRows \cup SavePlaylistTrackRows(txq[1], trackKeyGen)
    /\ playlistKeyGen' = txq[1].pid
    /\ trackKeyGen' = trackKeyGen + Len(txq[1].trks)
    /\ txq' = Remove(txq, 1)
    /\ UNCHANGED <<playVars, volume, currentPlaylistId, savedPlaylists, btnVars,
                   preferenceSaveTimeout, initPc, idbOk, envVars, preferences, prefsTx, schema, clock, infoq>>

\* A track add or the commit fails (quota): the transaction aborts and none
\* of its rows is kept.  transaction.onerror calls reject on a promise that
\* is already resolved, which does nothing.
SaveTxAbort ==
    /\ Runnable(1)
    /\ txq[1].kind = "save" /\ txq[1].stage = "written"
    /\ txq' = Remove(txq, 1)
    /\ UNCHANGED <<playVars, volume, currentPlaylistId, savedPlaylists, btnVars,
                   preferenceSaveTimeout, initPc, idbOk, envVars, storeVars, preferences, prefsTx, schema,
                   clock, infoq>>

\* ------------------------------------------------------------ loadPlaylist

\* The ids of the rendered saved playlists: the load and delete buttons.
RenderedIds == {savedPlaylists[k].id : k \in 1..Len(savedPlaylists)}

\* loadSavedPlaylist up to the first request of loadPlaylist.
LoadSavedPlaylist ==
    /\ PendingOps < MaxOps
    /\ \E playlistId \in RenderedIds :
           IF idbOk
           THEN /\ txq' = Append(txq, Tx("load", "get", playlistId, "", <<>>, 0,
                                        "Save", "load"))
                /\ infoq' = infoq
           ELSE /\ infoq' = Append(infoq, [origin |-> "loadFailed",
                                           pid |-> playlistId, orig |-> "Save"])
                /\ txq' = txq
    /\ UNCHANGED <<playVars, volume, currentPlaylistId, savedPlaylists, btnVars,
                   preferenceSaveTimeout, initPc, idbOk, envVars, storeVars, preferences, prefsTx, schema,
                   clock>>

\* A loadPlaylist without the not-found check.
PlaylistFound_NoCheck(pls, id) == TRUE

\* Whether loadPlaylist(id) gets past its not-found check.
PlaylistFound(pls, id) == GetPlaylist(pls, id) # {}

\* playlistRequest.onsuccess with a row: the tracks are asked for.
LoadPlaylistFound ==
    \E i \in 1..Len(txq) :
        /\ Runnable(i)
        /\ txq[i].kind = "load" /\ txq[i].stage = "get"
        /\ PlaylistFound(playlists, txq[i].pid)
        /\ txq' = [txq EXCEPT ![i].stage = "getAll"]
        /\ UNCHANGED <<playVars, volume, currentPlaylistId, savedPlaylists, btnVars,
                       preferenceSaveTimeout, initPc, idbOk, envVars, storeVars,
                       preferences, prefsTx, schema, clock, infoq>>

\* playlistRequest.onsuccess without a row: 'Playlist not found' is
\* rejected and the catch block of loadSavedPlaylist alerts.
LoadPlaylistNotFound ==
    \E i \in 1..Len(txq) :
        /\ Runnable(i)
        /\ txq[i].kind = "load" /\ txq[i].stage = "get"
        /\ ~PlaylistFound(playlists, txq[i].pid)
        /\ txq' = Remove(txq, i)
        /\ UNCHANGED <<playVars, volume, currentPlaylistId, savedPlaylists, btnVars,
                       preferenceSaveTimeout, initPc, idbOk, envVars, storeVars,
                       preferences, prefsTx, schema, clock, infoq>>

\* tracksRequest.onsuccess: the rows are sorted and made playable, the
\* promise resolves and loadSavedPlaylist replaces the track list.
LoadPlaylistTracks ==
    \E i \in 1..Len(txq) :
        /\ Runnable(i)
        /\ txq[i].kind = "load" /\ txq[i].stage = "getAll"
        /\ \E retrieved \in RetrievalOrders(TracksOfPlaylist(trackRows, txq[i].pid)) :
               tracks' = LoadedTracks(retrieved)
        /\ currentPlaylistId' = txq[i].pid
        /\ currentIndex' = 0
        /\ \E draws \in IF shuffleMode THEN DrawSeqs(Len(tracks')) ELSE {<<>>} :
               shuffledOrder' =
                   IF shuffleMode THEN GenerateShuffledOrder(Len(tracks'), draws)
                   ELSE shuffledOrder
        /\ shuffledIndex' = IF shuffleMode THEN 0 ELSE shuffledIndex
        /\ preferenceSaveTimeout' =
               IF Len(tracks') > 0 THEN SavePreferencesDebounced(preferenceSaveTimeout)
               ELSE preferenceSaveTimeout
        /\ txq' = Remove(txq, i)
        /\ UNCHANGED <<shuffleMode, volume, savedPlaylists, btnVars, initPc, idbOk, envVars,
                       storeVars, preferences, prefsTx, schema, clock, infoq>>

\* ---------------------------------------------------------- deletePlaylist

\* deleteSavedPlaylist, confirmed, up to the requests of deletePlaylist:
\* the delete of the playlist row and the cursor over its tracks.
DeleteSavedPlaylist ==
    /\ PendingOps < MaxOps
    /\ \E playlistId \in RenderedIds :
           IF idbOk
           THEN /\ txq' = Append(txq, Tx("delete", "cursor", playlistId, "", <<>>, 0,
                                        "Save", "delete"))
                /\ infoq' = infoq
           ELSE /\ infoq' = Append(infoq, [origin |-> "deleteFailed",
                                           pid |-> playlistId, orig |-> "Save"])
                /\ txq' = txq
    /\ UNCHANGED <<playVars, volume, currentPlaylistId, savedPlaylists, btnVars,
                   preferenceSaveTimeout, initPc, idbOk, envVars, storeVars, preferences, prefsTx, schema,
                   clock>>

\* tracksRequest.onsuccess with a cursor: the row under it is deleted and
\* the cursor moves on, in key order.
DeleteCursorStep ==
    /\ Runnable(1)
    /\ txq[1].kind = "delete"
    /\ LET rest == CursorRemaining(trackRows, txq[1].pid, txq[1].visited)
       IN  /\ rest # {}
           /\ LET row == CHOOSE t \in rest : \A u \in rest : t.id <= u.id
              IN  txq' = [txq EXCEPT ![1].visited = @ \cup {row.id}]
    /\ UNCHANGED <<playVars, volume, currentPlaylistId, savedPlaylists, btnVars,
                   preferenceSaveTimeout, initPc, idbOk, envVars, storeVars, preferences, prefsTx, schema,
                   clock, infoq>>

\* The cursor has run out and the transaction completes: the deletes reach
\* the stores, the promise resolves and deleteSavedPlaylist goes on to
\* refreshSavedPlaylists.
DeleteTxComplete ==
    /\ Runnable(1)
    /\ txq[1].kind = "delete"
    /\ CursorRemaining(trackRows, txq[1].pid, txq[1].visited) = {}
    /\ playlists' = PlaylistsAfterDelete(playlists, txq[1].pid)
    /\ trackRows' = TracksAfterDelete(trackRows, txq[1].visited)
    /\ txq' = Append(Remove(txq, 1), ListTx("delete", txq[1].pid, "Save"))
    /\ UNCHANGED <<playVars, volume, currentPlaylistId, savedPlaylists, btnVars,
                   preferenceSaveTimeout, initPc, idbOk, envVars, playlistKeyGen,
                   trackKeyGen, preferences, prefsTx, schema, clock, infoq>>

\* A request of the transaction fails: it aborts with the stores as they
\* were, and the catch block of deleteSavedPlaylist alerts.
DeleteTxAbort ==
    /\ Runnable(1)
    /\ txq[1].kind = "delete"
    /\ txq' = Remove(txq, 1)
    /\ UNCHANGED <<playVars, volume, currentPlaylistId, savedPlaylists, btnVars,
                   preferenceSaveTimeout, initPc, idbOk, envVars, storeVars, preferences, prefsTx, schema,
                   clock, infoq>>

\* --------------------------------------------- refresh and what follows it

\* getAllPlaylists resolves inside refreshSavedPlaylists: the list is kept
\* and rendered, and the caller goes on to updateStorageInfo.
GetAllPlaylistsSuccess ==
    \E i \in 1..Len(txq) :
        /\ Runnable(i)
        /\ txq[i].kind = "list"
        /\ savedPlaylists' = GetAllPlaylists(playlists)
        /\ txq' = Remove(txq, i)
        /\ IF txq[i].origin = "init"
           THEN initPc' = "info" /\ infoq' = infoq
           ELSE /\ infoq' = Append(infoq, [origin |-> txq[i].origin,
                                           pid |-> txq[i].pid, orig |-> txq[i].orig])
                /\ initPc' = initPc
        /\ UNCHANGED <<playVars, volume, currentPlaylistId, btnVars,
                       preferenceSaveTimeout, idbOk, envVars, storeVars, preferences, prefsTx, schema, clock>>

\* saveCurrentPlaylist after updateStorageInfo: the success label, and
\* the timer that will restore the button.
SaveSucceeded ==
    \E i \in 1..Len(infoq) :
        /\ infoq[i].origin = "save"
        /\ saveBtnLabel' = "Saved"
        /\ saveBtnTimers' = Append(saveBtnTimers, infoq[i].orig)
        /\ infoq' = Remove(infoq, i)
        /\ UNCHANGED <<playVars, volume, currentPlaylistId, savedPlaylists,
                       saveBtnDisabled, preferenceSaveTimeout, initPc, idbOk, envVars,
                       storeVars, preferences, prefsTx, schema, clock, txq>>

\* The timer of saveCurrentPlaylist restoring the label only.
SaveButtonTimer_LabelOnly ==
    /\ saveBtnTimers # <<>>
    /\ saveBtnLabel' = Head(saveBtnTimers)
    /\ saveBtnTimers' = Tail(saveBtnTimers)
    /\ UNCHANGED <<playVars, volume, currentPlaylistId, savedPlaylists,
                   saveBtnDisabled, preferenceSaveTimeout, initPc, idbOk, envVars, storeVars,
                   preferences, prefsTx, schema, clock, txq, infoq>>

\* The 1500 ms timer of saveCurrentPlaylist fires.
SaveButtonTimer ==
    /\ saveBtnTimers # <<>>
    /\ saveBtnLabel' = Head(saveBtnTimers)
    /\ saveBtnDisabled' = FALSE
    /\ saveBtnTimers' = Tail(saveBtnTimers)
    /\ UNCHANGED <<playVars, volume, currentPlaylistId, savedPlaylists,
                   preferenceSaveTimeout, initPc, idbOk, envVars, storeVars, preferences, prefsTx, schema,
                   clock, txq, infoq>>

\* deleteSavedPlaylist finishing without looking at the loaded playlist.
DeleteSucceeded_NoClear ==
    \E i \in 1..Len(infoq) :
        /\ infoq[i].origin = "delete"
        /\ infoq' = Remove(infoq, i)
        /\ UNCHANGED <<playVars, volume, currentPlaylistId, savedPlaylists, btnVars,
                       preferenceSaveTimeout, initPc, idbOk, envVars, storeVars,
                       preferences, prefsTx, schema, clock, txq>>

\* deleteSavedPlaylist after updateStorageInfo: the id of the loaded
\* playlist is cleared when it was the deleted one.
DeleteSucceeded ==
    \E i \in 1..Len(infoq) :
        /\ infoq[i].origin = "delete"
        /\ currentPlaylistId' =
               IF currentPlaylistId = infoq[i].pid THEN Null ELSE currentPlaylistId
        /\ infoq' = Remove(infoq, i)
        /\ UNCHANGED <<playVars, volume, savedPlaylists, btnVars,
                       preferenceSaveTimeout, initPc, idbOk, envVars, storeVars,
                       preferences, prefsTx, schema, clock, txq>>

\* initDB rejected inside savePlaylist, loadPlaylist or deletePlaylist: the
\* catch block of the caller alerts; the one of saveCurrentPlaylist also
\* restores the button.
OpenFailed ==
    \E i \in 1..Len(infoq) :
        /\ infoq[i].origin \in {"saveFailed", "loadFailed", "deleteFailed"}
        /\ saveBtnLabel' =
               IF infoq[i].origin = "saveFailed" THEN infoq[i].orig ELSE saveBtnLabel
        /\ saveBtnDisabled' =
               IF infoq[i].origin = "saveFailed" THEN FALSE ELSE saveBtnDisabled
        /\ infoq' = Remove(infoq, i)
        /\ UNCHANGED <<playVars, volume, currentPlaylistId, savedPlaylists,
                       saveBtnTimers, preferenceSaveTimeout, initPc, idbOk, envVars,
                       storeVars, preferences, prefsTx, schema, clock, txq>>

\* ---------------------------------------------------------- service worker

CACHE_NAME == "wmd-player-v1"

\* The cache of an earlier version of the worker.
OldCacheName == "wmd-player-v0"

STATIC_ASSETS ==
    {"./", "./index.html", "./styles.css", "./app.js", "./manifest.json",
     "./icon-192.png", "./icon-512.png"}

\* location.origin, and the origin of another site.
LocationOrigin == "self"
OtherOrigin == "other"

\* The requests the fetch listener is given: two pre-cached assets, a
\* script and a page that are not pre-cached, and a style sheet of
\* another site, each by GET and by POST.
Requests ==
    { [url |-> r[1], origin |-> r[2], destination |-> r[3], method |-> m] :
        r \in { <<"./app.js", LocationOrigin, "script">>,
                <<"./index.html", LocationOrigin, "document">>,
                <<"./visualizer.js", LocationOrigin, "script">>,
                <<"./about.html", LocationOrigin, "document">>,
                <<"https://fonts.example/inter.css", OtherOrigin, "style">> },
        m \in {"GET", "POST"} }

\* An entry of the cache: the request's url, method and origin, the status
\* of the response, and whether install or the fetch listener put it.
CacheEntry(req, status, by) ==
    [url |-> req.url, method |-> req.method, origin |-> req.origin,
     status |-> status, by |-> by]

\* cache.addAll(STATIC_ASSETS) once every asset has been fetched.
StaticEntries ==
    { [url |-> u, method |-> "GET", origin |-> LocationOrigin, status |-> 200,
       by |-> "install"] : u \in STATIC_ASSETS }

\* caches.match(request): the entries for the url of a GET request.
CachesMatch(cache, req) ==
    IF req.method = "GET" THEN {entry \in cache : entry.url = req.url} ELSE {}

\* The names the activate listener deletes.
StaleCaches(names) == {name \in names : name # CACHE_NAME}

\* The fetch listener caching whatever the network returned.
ShouldCache_Always(status, method) == TRUE

\* The fetch listener's test before caching a network response.
ShouldCache(status, method) == status = 200 /\ method = "GET"

Answer(req, source, network) ==
    [url |-> req.url, method |-> req.method, source |-> source, network |-> network]

\* The install event: the assets are fetched and cached together; when one
\* of them fails the installation fails, the opened cache left empty.
Install ==
    /\ swState = "parsed"
    /\ \E fetched \in BOOLEAN :
           /\ swCache' = IF fetched THEN swCache \cup StaticEntries ELSE swCache
           /\ swState' = IF fetched THEN "installed" ELSE "redundant"
    /\ cacheNames' = cacheNames \cup {CACHE_NAME}
    /\ UNCHANGED <<pageVars, fetches, answered>>

\* The activate event, after skipWaiting: every other cache is deleted.
Activate ==
    /\ swState = "installed"
    /\ cacheNames' = cacheNames \ StaleCaches(cacheNames)
    /\ swState' = "activated"
    /\ UNCHANGED <<pageVars, swCache, fetches, answered>>

\* The fetch event up to the answer of caches.match: a request of another
\* origin is left to the browser, a cached one is answered from the cache,
\* any other goes to the network.
FetchEvent ==
    /\ swState = "activated"
    /\ Len(fetches) < MaxFetches
    /\ \E req \in Requests :
           IF req.origin # LocationOrigin
           THEN /\ answered' = Answer(req, "network", TRUE)
                /\ fetches' = fetches
           ELSE IF CachesMatch(swCache, req) # {}
           THEN /\ answered' = Answer(req, "cache", FALSE)
                /\ fetches' = fetches
           ELSE /\ fetches' = Append(fetches, [req |-> req, stage |-> "network",
                                               status |-> 0])
                /\ answered' = answered
    /\ UNCHANGED <<pageVars, swState, cacheNames, swCache>>

\* fetch(event.request) resolves: the response answers the request, and a
\* copy is on its way to the cache when the test allows.
NetworkResponse ==
    \E i \in 1..Len(fetches), status \in {200, 404} :
        /\ fetches[i].stage = "network"
        /\ answered' = Answer(fetches[i].req, "network", TRUE)
        /\ fetches' =
               IF ShouldCache(status, fetches[i].req.method)
               THEN [fetches EXCEPT ![i].stage = "put", ![i].status = status]
               ELSE Remove(fetches, i)
        /\ UNCHANGED <<pageVars, swState, cacheNames, swCache>>

\* fetch(event.request) rejects: the catch answers a page request with
\* the cached index.html and any other with nothing.
NetworkFailure ==
    \E i \in 1..Len(fetches) :
        /\ fetches[i].stage = "network"
        /\ answered' =
               Answer(fetches[i].req,
                      IF /\ fetches[i].req.destination = "document"
                         /\ \E entry \in swCache : entry.url = "./index.html"
                      THEN "offline" ELSE "none",
                      TRUE)
        /\ fetches' = Remove(fetches, i)
        /\ UNCHANGED <<pageVars, swState, cacheNames, swCache>>

\* caches.open(CACHE_NAME) resolves and cache.put stores the copy.
CachePut ==
    \E i \in 1..Len(fetches) :
        /\ fetches[i].stage = "put"
        /\ cacheNames' = cacheNames \cup {CACHE_NAME}
        /\ swCache' = {entry \in swCache : entry.url # fetches[i].req.url}
                          \cup {CacheEntry(fetches[i].req, fetches[i].status, "fetch")}
        /\ fetches' = Remove(fetches, i)
        /\ UNCHANGED <<pageVars, swState, answered>>

WorkerNext ==
    \/ Install
    \/ Activate
    \/ FetchEvent
    \/ NetworkResponse
    \/ NetworkFailure
    \/ CachePut

\* ------------------------------------------------------------ specification

PlaybackNext ==
    \/ PlayTrackClick
    \/ PlayNext
    \/ PlayPrevious
    \/ ToggleShuffle

StartupNext ==
    \/ InitDBSettled
    \/ PersistSettled
    \/ LoadPreferencesSettled
    \/ InitInfoSettled

StorageNext ==
    \/ SaveCurrentPlaylist
    \/ SavePlaylistAdded
    \/ SavePlaylistAddError
    \/ SaveTxComplete
    \/ SaveTxAbort
    \/ LoadSavedPlaylist
    \/ LoadPlaylistFound
    \/ LoadPlaylistNotFound
    \/ LoadPlaylistTracks
    \/ DeleteSavedPlaylist
    \/ DeleteCursorStep
    \/ DeleteTxComplete
    \/ DeleteTxAbort
    \/ SaveSucceeded
    \/ SaveButtonTimer
    \/ DeleteSucceeded
    \/ OpenFailed

\* The whole page and its service worker.
Next ==
    \/ LoadFiles
    \/ LoadAlbum
    \/ VolumeInput
    \/ AdjustVolume
    \/ ToggleMute
    \/ WorkerNext
    \/ DebounceTick
    \/ PreferenceSaveTimer
    \/ SavePreferencesCall
    \/ SavePreferencesComplete
    \/ SavePreferencesError
    \/ GetAllPlaylistsSuccess
    \/ PlaybackNext
    \/ StartupNext
    \/ StorageNext

Spec == Init /\ [][Next]_vars

\* The page with nothing stored by an earlier session.
InitFresh == Init /\ preferences = NoPreferences /\ schema = EmptySchema

\* Saving, loading and deleting playlists: every storage operation under
\* every interleaving, with the playback controls left alone.
SpecStorage ==
    InitFresh /\ [][LoadFiles \/ GetAllPlaylistsSuccess \/ StartupNext \/ StorageNext]_vars

\* The playback order: the controls and the startup that loads the
\* preferences, with no playlist saved.
SpecPlayback ==
    Init /\ [][LoadFiles \/ DebounceTick \/ PreferenceSaveTimer
                 \/ SavePreferencesComplete \/ SavePreferencesError
                 \/ GetAllPlaylistsSuccess \/ PlaybackNext \/ StartupNext]_vars

\* The startup over a database of any schema.
InitSchema == InitPage /\ NoWorker /\ schema \in Schemas

SpecSchema == InitSchema /\ [][GetAllPlaylistsSuccess \/ StartupNext]_vars

\* The preferences: the events that change them, the debounce timer and
\* the startup that reads them back.
SpecPrefs ==
    Init /\ [][ToggleShuffle \/ VolumeInput \/ DebounceTick
                 \/ PreferenceSaveTimer \/ SavePreferencesCall
                 \/ SavePreferencesComplete \/ SavePreferencesError
                 \/ GetAllPlaylistsSuccess \/ StartupNext]_vars

\* The preferences with the page left open: time passes, due timers fire,
\* requested writes settle and the startup goes on; savePreferences is
\* called by the debounce timer only.
PrefsLiveNext ==
    \/ ToggleShuffle
    \/ VolumeInput
    \/ DebounceTick
    \/ PreferenceSaveTimer
    \/ SavePreferencesComplete
    \/ SavePreferencesError
    \/ GetAllPlaylistsSuccess
    \/ StartupNext

SpecPrefsLive ==
    /\ Init
    /\ [][PrefsLiveNext]_vars
    /\ WF_vars(DebounceTick)
    /\ WF_vars(PreferenceSaveTimer)
    /\ WF_vars(SavePreferencesComplete \/ SavePreferencesError)
    /\ WF_vars(GetAllPlaylistsSuccess)
    /\ WF_vars(StartupNext)

\* Saving playlists with the page left open: requests and transactions
\* settle one way or the other, handlers run on and due timers fire.
SaveLiveNext ==
    \/ LoadSingle
    \/ SaveCurrentPlaylist
    \/ SavePlaylistAdded
    \/ SavePlaylistAddError
    \/ SaveTxComplete
    \/ SaveTxAbort
    \/ GetAllPlaylistsSuccess
    \/ SaveSucceeded
    \/ SaveButtonTimer
    \/ OpenFailed
    \/ StartupNext

SpecSaveLive ==
    /\ InitFresh
    /\ [][SaveLiveNext]_vars
    /\ WF_vars(SavePlaylistAdded \/ SavePlaylistAddError)
    /\ WF_vars(SaveTxComplete \/ SaveTxAbort)
    /\ WF_vars(GetAllPlaylistsSuccess)
    /\ WF_vars(SaveSucceeded)
    /\ WF_vars(SaveButtonTimer)
    /\ WF_vars(OpenFailed)
    /\ WF_vars(StartupNext)

\* The volume: the slider, the keyboard and the mute button, and the
\* startup that sets the audio element's volume.
SpecVolume ==
    Init /\ [][VolumeInput \/ AdjustVolume \/ ToggleMute
                 \/ GetAllPlaylistsSuccess \/ StartupNext]_vars

\* The service worker registered by a page that does nothing else, on a
\* first visit or over the cache of an earlier version.
InitWorker ==
    /\ InitPage
    /\ idbOk /\ ~saveBtnDisabled
    /\ preferences = NoPreferences /\ schema = EmptySchema
    /\ swState = "parsed"
    /\ cacheNames \in {{}, {OldCacheName}}
    /\ swCache = {}
    /\ fetches = <<>>
    /\ answered = NoAnswer

SpecWorker == InitWorker /\ [][WorkerNext]_vars

\* The playback order over folders of up to four tracks, the database
\* opening; the preferences stay as the earlier session left them.
InitOrder == Init /\ idbOk

SpecOrder ==
    InitOrder /\ [][LoadFiles \/ LoadAlbum \/ GetAllPlaylistsSuccess
                      \/ PlaybackNext \/ StartupNext]_vars

\* ------------------------------------------------------------------ claims

IsBijection(order, n) ==
    /\ Len(order) = n
    /\ \A v \in 0..(n - 1) : \E k \in 1..n : order[k] = v
    /\ \A a, b \in 1..n : order[a] = order[b] => a = b

\* C1: in every reachable state, shuffle on with a non-empty track list
\* means shuffledOrder is a bijection over [0, tracks.length) and
\* shuffledIndex is an index into it; and a non-empty track list means
\* currentIndex is in [0, tracks.length).
C1_OrderStateValid ==
    /\ (shuffleMode /\ Len(tracks) > 0) =>
           /\ IsBijection(shuffledOrder, Len(tracks))
           /\ shuffledIndex \in 0..(Len(shuffledOrder) - 1)
    /\ Len(tracks) > 0 => currentIndex \in 0..(Len(tracks) - 1)

\* The ids any stored row carries.
StoredIds == {p.id : p \in playlists} \cup {t.playlistId : t \in trackRows}

\* What a read of the stores sees of playlist id.
NothingVisible(id) ==
    GetPlaylist(playlists, id) = {} /\ TracksOfPlaylist(trackRows, id) = {}

FullyVisible(id) ==
    LET rows == TracksOfPlaylist(trackRows, id)
    IN  \E p \in playlists :
            /\ GetPlaylist(playlists, id) = {p}
            /\ p.trackCount > 0
            /\ Cardinality(rows) = p.trackCount
            /\ p.totalSize = SumSizes(rows)
            /\ p.totalSize > 0

\* C2: savePlaylist is atomic: whatever a read of the stores sees, before,
\* during or after a save, one that aborts included, it is either no row
\* of the playlist or the playlist row with its final totalSize and all of
\* its track rows.
C2_SaveAtomic ==
    /\ \A id \in StoredIds : NothingVisible(id) \/ FullyVisible(id)
    /\ \A i \in 1..Len(txq) :
           (txq[i].kind = "save" /\ txq[i].stage = "written") =>
               NothingVisible(txq[i].pid)

\* A save is in flight, its rows handed to the transaction, while another
\* playlist is stored.
C2_Witness ==
    /\ playlists # {}
    /\ \E i \in 1..Len(txq) : txq[i].kind = "save" /\ txq[i].stage = "written"

\* C3: every error during the write of savePlaylist reaches the caller as a
\* rejection: once savePlaylist has resolved with an id (its caller is
\* waiting for the refresh) and its transaction is over, the playlist row
\* and all its track rows are stored.
C3_SaveErrorsSurfaced ==
    \A i \in 1..Len(txq) :
        ( /\ txq[i].kind = "list"
          /\ txq[i].origin = "save"
          /\ ~\E j \in 1..Len(txq) : txq[j].kind = "save" /\ txq[j].pid = txq[i].pid )
        => FullyVisible(txq[i].pid)

\* The ids whose deletePlaylist has resolved, the caller not yet done.
DeletedIds ==
    {txq[i].pid : i \in {k \in 1..Len(txq) :
                            txq[k].kind = "list" /\ txq[k].origin = "delete"}}
    \cup {infoq[i].pid : i \in {k \in 1..Len(infoq) : infoq[k].origin = "delete"}}

\* C4: no orphaned track record: every stored track row belongs to a stored
\* playlist row, under every interleaving of saves and deletes.
C4_NoOrphanTracks ==
    \A t \in trackRows : PlaylistFound(playlists, t.playlistId)

\* The delete of a stored playlist has completed and the tracks of another
\* playlist remain stored.
C4_Witness ==
    /\ trackRows # {}
    /\ \E id \in DeletedIds : id <= playlistKeyGen

\* C5: for every stored playlist, from the commit of its save until it is
\* deleted, totalSize is the sum of the sizes of its track rows and
\* trackCount is their number.
C5_AggregatesMatch ==
    \A p \in playlists :
        LET rows == TracksOfPlaylist(trackRows, p.id)
        IN  p.totalSize = SumSizes(rows) /\ p.trackCount = Cardinality(rows)

\* Two playlists are stored, one of them with two tracks.
C5_Witness ==
    /\ Cardinality(playlists) = 2
    /\ \E p \in playlists : p.trackCount = 2

\* C6: once deletePlaylist(id) has completed, no track row with that
\* playlistId is stored and loadPlaylist(id) ends at its not-found check.
C6_CascadeDelete ==
    \A id \in DeletedIds :
        TracksOfPlaylist(trackRows, id) = {} /\ ~PlaylistFound(playlists, id)

\* The delete of a playlist that had been stored has completed.
C6_Witness == \E id \in DeletedIds : id <= playlistKeyGen

SameTracks(loaded, supplied) ==
    /\ Len(loaded) = Len(supplied)
    /\ \A k \in 1..Len(supplied) :
           /\ loaded[k].name = supplied[k].name
           /\ loaded[k].file.name = supplied[k].file.name
           /\ loaded[k].file.blob = supplied[k].file.blob
           /\ BlobSize(loaded[k].file.blob) = BlobSize(supplied[k].file.blob)

C8_LoadNotFound ==
    [][ \A i \in 1..Len(txq) :
          ( /\ Runnable(i)
            /\ txq[i].kind = "load"
            /\ txq[i].stage = "get"
            /\ ~\E p \in playlists : p.id = txq[i].pid
            /\ \/ txq' = Remove(txq, i)
               \/ txq' = [txq EXCEPT ![i].stage = "getAll"] )
          => /\ txq' = Remove(txq, i)
             /\ UNCHANGED <<tracks, currentIndex, currentPlaylistId, shuffleMode,
                            shuffledOrder, shuffledIndex>>
      ]_vars

\* The load of a deleted playlist is about to run, with tracks loaded.
C8_Witness ==
    /\ Len(tracks) > 0
    /\ \E i \in 1..Len(txq) :
           /\ Runnable(i)
           /\ txq[i].kind = "load"
           /\ txq[i].stage = "get"
           /\ ~\E p \in playlists : p.id = txq[i].pid

\* C9: deletePlaylist of an id with no stored row is rejected and leaves
\* the stores unchanged: its transaction never ends with the promise
\* resolved.
C9_DeleteNotFound ==
    [][ ( /\ txq # <<>>
          /\ txq[1].kind = "delete"
          /\ ~\E p \in playlists : p.id = txq[1].pid
          /\ (txq' = <<>> \/ txq'[1] # txq[1]) )
        => /\ txq' = Remove(txq, 1)
           /\ UNCHANGED <<playlists, trackRows>>
      ]_vars

\* Save, load and delete operations whose transaction is unfinished.
StorageOpsInFlight ==
    Cardinality({i \in 1..Len(txq) : txq[i].kind \in {"save", "load", "delete"}})

\* C10: at most one save, load or delete is in flight at any time.
C10_OneOperationInFlight == StorageOpsInFlight <= 1

\* C11: generateShuffledOrder yields, for the track count at hand (zero
\* included) and every sequence of draws j in [0, i], an order holding each
\* index of [0, n) exactly once; the order the state holds is always such
\* an order over its own length.
C11_ShuffleIsBijection ==
    /\ \A draws \in DrawSeqs(Len(tracks)) :
           IsBijection(GenerateShuffledOrder(Len(tracks), draws), Len(tracks))
    /\ IsBijection(shuffledOrder, Len(shuffledOrder))

\* Four tracks are in shuffled mode in an order other than the loaded one.
C11_Witness ==
    /\ shuffleMode
    /\ Len(tracks) = 4
    /\ IsBijection(shuffledOrder, 4)
    /\ shuffledOrder # <<0, 1, 2, 3>>

RECURSIVE Factorial(_)
Factorial(n) == IF n <= 1 THEN 1 ELSE n * Factorial(n - 1)

\* C12: for n >= 2 tracks the draws of generateShuffledOrder reach every one
\* of the n! permutations of [0, n), each by exactly one sequence of draws.
C12_ShuffleUniform ==
    Len(tracks) >= 2 =>
        LET n == Len(tracks)
            produced == {GenerateShuffledOrder(n, draws) : draws \in DrawSeqs(n)}
        IN  /\ \A order \in produced : IsBijection(order, n)
            /\ Cardinality(produced) = Factorial(n)
            /\ Cardinality(DrawSeqs(n)) = Cardinality(produced)

\* Three tracks are shuffled into the order 2, 0, 1.
C12_Witness ==
    /\ shuffleMode
    /\ Len(tracks) = 3
    /\ shuffledOrder = <<2, 0, 1>>

\* C13: in sequential mode with n >= 1 tracks, playNext makes the current
\* index (currentIndex + 1) mod n and playPrevious, the position not past
\* 3 seconds, makes it (currentIndex - 1 + n) mod n.
C13_SequentialWraps ==
    [][ (~shuffleMode /\ Len(tracks) >= 1) =>
          LET n == Len(tracks)
          IN  /\ PlayNext =>
                     /\ currentIndex \in 0..(n - 1)
                     /\ currentIndex' = (currentIndex + 1) % n
              /\ PlayPreviousAt(FALSE) =>
                     /\ currentIndex \in 0..(n - 1)
                     /\ currentIndex' = (currentIndex - 1 + n) % n
      ]_vars

\* state.currentIndex after k playNext, or k playPrevious, calls in
\* sequential mode, from ci with n tracks.
RECURSIVE AfterPlayNexts(_, _, _)
AfterPlayNexts(ci, n, k) ==
    IF k = 0 THEN ci
    ELSE AfterPlayNexts(AfterLoadTrack(ci, SeqNextIndex(ci, n), n), n, k - 1)

RECURSIVE AfterPlayPreviouses(_, _, _)
AfterPlayPreviouses(ci, n, k) ==
    IF k = 0 THEN ci
    ELSE AfterPlayPreviouses(AfterLoadTrack(ci, SeqPrevIndex(ci, n), n), n, k - 1)

\* C14: in sequential mode with n >= 1 tracks, n consecutive playNext calls
\* bring currentIndex back to where it started, and so do n consecutive
\* playPrevious calls.
C14_OrderConsistency ==
    (~shuffleMode /\ Len(tracks) >= 1) =>
        /\ AfterPlayNexts(currentIndex, Len(tracks), Len(tracks)) = currentIndex
        /\ AfterPlayPreviouses(currentIndex, Len(tracks), Len(tracks)) = currentIndex

\* C15: in shuffled mode with tracks loaded, playNext moves the cursor to
\* (shuffledIndex + 1) mod shuffledOrder.length and playPrevious to
\* (shuffledIndex - 1 + length) mod length; the track made current is
\* shuffledOrder[cursor], the cursor standing there when the call returns.
C15_ShuffledCursor ==
    [][ (shuffleMode /\ Len(tracks) >= 1) =>
          LET len == Len(shuffledOrder)
          IN  /\ PlayNext =>
                     /\ len > 0
                     /\ IsNum(shuffledIndex)
                     /\ shuffledIndex' = (shuffledIndex + 1) % len
                     /\ currentIndex' = shuffledOrder[shuffledIndex' + 1]
              /\ PlayPreviousAt(FALSE) =>
                     /\ len > 0
                     /\ IsNum(shuffledIndex)
                     /\ shuffledIndex' = (shuffledIndex - 1 + len) % len
                     /\ currentIndex' = shuffledOrder[shuffledIndex' + 1]
      ]_vars

\* C16: when toggleShuffle has switched shuffle on with tracks loaded, a
\* permutation of the tracks has been generated and
\* shuffledOrder[shuffledIndex] is currentIndex; with no tracks the cursor
\* is 0.
C16_ToggleShuffleOn ==
    [][ (ToggleShuffle /\ ~shuffleMode) =>
          IF Len(tracks) > 0
          THEN /\ IsBijection(shuffledOrder', Len(tracks))
               /\ shuffledIndex' \in 0..(Len(tracks) - 1)
               /\ shuffledOrder'[shuffledIndex' + 1] = currentIndex'
          ELSE shuffledIndex' = 0
      ]_vars

\* C17: after playTrack(i), i an index of the list, in shuffled mode,
\* shuffledOrder[shuffledIndex] is i and the permutation is as it was.
C17_PlayTrackSyncsCursor ==
    [][ (PlayTrackClick /\ shuffleMode) =>
          /\ shuffledOrder' = shuffledOrder
          /\ shuffledIndex' \in 0..(Len(shuffledOrder) - 1)
          /\ shuffledOrder[shuffledIndex' + 1] = currentIndex'
      ]_vars

\* C18: playTrack / loadTrack called with an index outside
\* [0, tracks.length) leaves currentIndex, shuffledOrder and shuffledIndex
\* as they stood at the call and raises no error.
C18_OutOfRangeNoOp ==
    [][ Len(tracks) >= 1 =>
          /\ (PlayNext /\ NextIndex \notin 0..(Len(tracks) - 1)) =>
                 /\ LoadTrackOutcome(NextIndex, Len(tracks)) # "throws"
                 /\ currentIndex' = currentIndex
                 /\ shuffledOrder' = shuffledOrder
                 /\ shuffledIndex' = IF shuffleMode THEN NextCursor ELSE shuffledIndex
          /\ (PlayPreviousAt(FALSE) /\ PreviousIndex \notin 0..(Len(tracks) - 1)) =>
                 /\ LoadTrackOutcome(PreviousIndex, Len(tracks)) # "throws"
                 /\ currentIndex' = currentIndex
                 /\ shuffledOrder' = shuffledOrder
                 /\ shuffledIndex' =
                        IF shuffleMode THEN PreviousCursor ELSE shuffledIndex
      ]_vars

\* C19: with no tracks loaded, playNext and playPrevious change neither
\* currentIndex, shuffledIndex, shuffledOrder nor the mode, and load
\* nothing, in either mode.
C19_EmptyListNoOp ==
    [][ (Len(tracks) = 0 /\ (PlayNext \/ PlayPrevious)) =>
            UNCHANGED <<currentIndex, shuffledIndex, shuffledOrder, shuffleMode,
                        preferenceSaveTimeout>>
      ]_vars

\* Shuffle is on and no tracks are loaded.
C19_Witness == shuffleMode /\ Len(tracks) = 0

\* C20: the mode changes by toggleShuffle only.
C20_ModeChangesByToggleOnly ==
    [][ shuffleMode' # shuffleMode => ToggleShuffle ]_vars

\* C21: whenever loadFiles or loadSavedPlaylist replaces the track list, the
\* object URLs of the list it replaces are revoked: the live URLs are those
\* of the new list and no others.
C21_UrlsRevokedOnReplace ==
    [][(LoadFiles \/ LoadPlaylistTracks) /\ tracks' # tracks
           => LiveAfterReplace(tracks, tracks') = ObjectUrls("new", tracks')]_vars

\* C22: savePreferencesDebounced debounces.  At most one of its timers is
\* pending; every event that changes a preference leaves that timer with
\* the whole delay to run, whatever was pending before; and a write of the
\* preferences happens only when the timer set by the last event has run
\* its full delay, and leaves no timer behind: a burst of events ends in
\* one write, a delay after its last event.
C22_Debounce ==
    /\ [](Len(preferenceSaveTimeout) <= 1)
    /\ [][ /\ (~DebounceTick /\ ~PreferenceSaveTimer
                /\ preferenceSaveTimeout' # preferenceSaveTimeout)
               => preferenceSaveTimeout' = <<DebounceMs>>
           /\ PreferenceSaveTimer
               => /\ preferenceSaveTimeout[Len(preferenceSaveTimeout)] = 0
                  /\ preferenceSaveTimeout' = <<>>
         ]_vars

\* A burst has ended in a write: the slider was moved, shuffle is on, both
\* are stored and no timer is pending.
C22_Witness ==
    /\ preferenceSaveTimeout = <<>>
    /\ preferences.volume = {100}
    /\ preferences.shuffleMode = {TRUE}

PreferenceKeys == DOMAIN NoPreferences

\* C23: a savePreferences call takes effect in one step, when its
\* transaction completes: every key of its map then holds the map's value
\* and every other key what it held before; a call that fails changes
\* nothing; and the stored preferences change in no other way, so no part
\* of a batch is ever stored alone.
C23_SavePreferencesFrame ==
    [][ /\ SavePreferencesComplete =>
               \A k \in PreferenceKeys :
                   preferences'[k] = IF Head(prefsTx)[k] # {} THEN Head(prefsTx)[k]
                                     ELSE preferences[k]
        /\ SavePreferencesError => preferences' = preferences
        /\ preferences' # preferences => SavePreferencesComplete
      ]_vars

\* A map holding lastTrackIndex alone was saved over the values of an
\* earlier session, which are still stored.
C23_Witness ==
    /\ prefsTx = <<>>
    /\ preferences = [volume |-> {50}, shuffleMode |-> {FALSE}, lastTrackIndex |-> {1}]

\* What loadPreferences returns once map m was saved over a store it
\* returned prefs for: m's pairs, and the pairs of prefs under other keys.
AfterSave(prefs, m) ==
    [k \in DOMAIN prefs \cup {j \in PreferenceKeys : m[j] # {}} |->
        IF m[k] # {} THEN CHOOSE v \in m[k] : TRUE ELSE prefs[k]]

\* C24: loadPreferences returns exactly the stored pairs: a property for
\* every key that has a record, holding the record's value, and none for a
\* key without one, so a key never saved is absent and no default stands in
\* for it.  A completed save changes what it returns to the save's pairs
\* plus the earlier pairs under the keys the save does not hold, and
\* nothing else changes it: each key maps to the value of the last save
\* that held it.
C24_LoadPreferencesExact ==
    /\ [](\A k \in PreferenceKeys :
            /\ k \in DOMAIN LoadPreferences(preferences) <=> preferences[k] # {}
            /\ preferences[k] # {} => preferences[k] = {LoadPreferences(preferences)[k]})
    /\ [][ IF SavePreferencesComplete
           THEN LoadPreferences(preferences') =
                    AfterSave(LoadPreferences(preferences), Head(prefsTx))
           ELSE LoadPreferences(preferences') = LoadPreferences(preferences)
         ]_vars

\* volume and lastTrackIndex were saved over an empty store, shuffleMode
\* never was.
C24_Witness ==
    /\ prefsTx = <<>>
    /\ preferences = [volume |-> {100}, shuffleMode |-> {}, lastTrackIndex |-> {1}]

\* The catch blocks of saveCurrentPlaylist still to run in queue q.
SaveFailuresIn(q) == Cardinality({i \in 1..Len(q) : q[i].origin = "saveFailed"})

\* C25: when savePlaylist fails, the catch block of saveCurrentPlaylist
\* leaves the save button enabled and showing the label it has when no save
\* is under way.
C25_SaveFailureRestoresButton ==
    [][ ( \/ SavePlaylistAddError
          \/ OpenFailed /\ SaveFailuresIn(infoq') < SaveFailuresIn(infoq) )
            => saveBtnLabel' = "Save" /\ ~saveBtnDisabled'
      ]_vars

\* C26: when the database cannot be opened, the failure ends
\* initializeStorage in its catch block: startup goes from the open straight
\* to its end, no transaction is ever created and the stored preferences
\* are never written.  The page works in memory as it does with storage:
\* the order state stays valid, so no call of loadTrack throws; playNext
\* and playPrevious step the current index in sequential mode and the
\* cursor in shuffled mode; toggleShuffle flips the mode.
C26_OpenFailureInMemory ==
    /\ [](~idbOk =>
            /\ initPc \in {"initDB", "done"}
            /\ prefsTx = <<>> /\ txq = <<>>
            /\ C1_OrderStateValid)
    /\ [][ ~idbOk =>
             /\ InitDBSettled => initPc' = "done"
             /\ preferences' = preferences
             /\ ToggleShuffle => shuffleMode' = ~shuffleMode
             /\ (Len(tracks) >= 1 /\ (PlayNext \/ PlayPreviousAt(FALSE))) =>
                    LET step == IF PlayNext THEN 1 ELSE 0 - 1
                        n    == Len(tracks)
                    IN  IF shuffleMode
                        THEN /\ Len(shuffledOrder) = n
                             /\ IsNum(shuffledIndex)
                             /\ shuffledIndex' = (shuffledIndex + step + n) % n
                             /\ currentIndex' = shuffledOrder[shuffledIndex' + 1]
                        ELSE /\ IsNum(currentIndex)
                             /\ currentIndex' = (currentIndex + step + n) % n
         ]_vars

\* The open has failed, startup is over, and two tracks are loaded and
\* shuffled with the second one current.
C26_Witness ==
    /\ ~idbOk
    /\ initPc = "done"
    /\ shuffleMode
    /\ Len(tracks) = 2
    /\ currentIndex = 1

\* C27: however requestPersistentStorage settles during startup,
\* initializeStorage goes on to load the preferences (and from there to
\* refresh the saved playlists).
C27_PersistFailureNonFatal ==
    [][PersistSettled => initPc' = "loadPrefs"]_vars

C29_OrderContiguous ==
    /\ [](\A p \in playlists :
            LET rows == TracksOfPlaylist(trackRows, p.id)
            IN  /\ {r.order : r \in rows} = 0..(p.trackCount - 1)
                /\ \A a, b \in rows : a.order = b.order => a = b)
    /\ [][ SaveTxComplete =>
             LET rows == TracksOfPlaylist(trackRows', txq[1].pid)
                 trks == txq[1].trks
             IN  \A k \in 1..Len(trks) :
                     \E r \in rows : /\ r.order = k - 1
                                     /\ r.name = trks[k].name
                                     /\ r.originalName = trks[k].file.name
                                     /\ r.audioBlob = trks[k].file.blob
         ]_vars

\* A playlist of two different tracks is stored, its rows numbered 0 and 1.
C29_Witness ==
    \E p \in playlists :
        \E a, b \in TracksOfPlaylist(trackRows, p.id) :
            a.order = 0 /\ b.order = 1 /\ a.audioBlob # b.audioBlob

\* The ids of the entries getAllPlaylists returns over the stored rows pls.
ListedIds(pls) ==
    {GetAllPlaylists(pls)[k].id : k \in 1..Len(GetAllPlaylists(pls))}

\* C30: getAllPlaylists returns the stored playlists, one entry each.  The
\* commit of a save adds one entry, under a new id and with trackCount the
\* number of tracks supplied; the completion of a delete removes the entry
\* of the deleted id; every other entry stays as it was, and no other step
\* changes the stored playlists.  So after any completed saves and deletes
\* the result holds exactly the playlists saved and not deleted.
C30_ListMatchesSaves ==
    /\ [](LET list == GetAllPlaylists(playlists)
          IN  /\ \A a, b \in 1..Len(list) : list[a].id = list[b].id => a = b
              /\ \A p \in playlists : \E k \in 1..Len(list) : list[k] = p
              /\ \A k \in 1..Len(list) : list[k] \in playlists)
    /\ [][ playlists' # playlists =>
             /\ SaveTxComplete \/ DeleteTxComplete
             /\ SaveTxComplete =>
                   /\ txq[1].pid \notin ListedIds(playlists)
                   /\ ListedIds(playlists') = ListedIds(playlists) \cup {txq[1].pid}
                   /\ \A p \in playlists' :
                          p.id = txq[1].pid => p.trackCount = Len(txq[1].trks)
             /\ DeleteTxComplete =>
                   ListedIds(playlists') = ListedIds(playlists) \ {txq[1].pid}
             /\ \A p \in playlists : p.id \in ListedIds(playlists') => p \in playlists'
         ]_vars

\* Two playlists were saved and the first was deleted: the list holds the
\* second alone, with its two tracks.
C30_Witness ==
    /\ playlistKeyGen = 2
    /\ Len(GetAllPlaylists(playlists)) = 1
    /\ GetAllPlaylists(playlists)[1].id = 2
    /\ GetAllPlaylists(playlists)[1].trackCount = 2

\* The list holds playlist rows only, latest createdAt first.
MetadataNewestFirst(list) ==
    /\ \A k \in 1..Len(list) :
           DOMAIN list[k] = {"id", "name", "trackCount", "createdAt", "totalSize"}
    /\ \A a, b \in 1..Len(list) : a < b => list[a].createdAt >= list[b].createdAt

\* C31: what getAllPlaylists returns, at any time and as the page last
\* received it, is made of playlist rows alone (id, name, trackCount,
\* createdAt, totalSize: no track row, no blob), the later createdAt first.
C31_ListMetadataNewestFirst ==
    /\ MetadataNewestFirst(GetAllPlaylists(playlists))
    /\ MetadataNewestFirst(savedPlaylists)

\* The page holds a list of two playlists, the one saved later first.
C31_Witness ==
    /\ Len(savedPlaylists) = 2
    /\ savedPlaylists[1].createdAt > savedPlaylists[2].createdAt
    /\ savedPlaylists[1].id > savedPlaylists[2].id

\* C32: in shuffled mode with tracks loaded, the cursor points at the
\* current track: shuffledOrder[shuffledIndex] is currentIndex.
C32_CursorAtCurrentTrack ==
    (shuffleMode /\ Len(tracks) > 0) => JsAt(shuffledOrder, shuffledIndex) = currentIndex

\* The tracks k consecutive playNext calls select in shuffled mode, from
\* the cursor si over the permutation order.
RECURSIVE ShuffledNexts(_, _, _)
ShuffledNexts(order, si, k) ==
    IF k = 0 THEN <<>>
    ELSE LET index == JsAt(order, JsMod(JsAdd(si, 1), Len(order)))
         IN  <<index>> \o ShuffledNexts(order, IndexOf(order, index), k - 1)

\* C33: in shuffled mode with n tracks, the current track and the tracks
\* the next n-1 playNext calls select are the n tracks, each once.
C33_EveryTrackOnce ==
    (shuffleMode /\ Len(tracks) > 0) =>
        LET n      == Len(tracks)
            played == <<currentIndex>> \o ShuffledNexts(shuffledOrder, shuffledIndex, n - 1)
        IN  {played[k] : k \in 1..n} = 0..(n - 1)

\* C34: a volume or shuffle change the user made before the startup read
\* of the preferences has settled is not lost: when the read settles, a
\* volume that is no longer the page's initial 75 and a shuffle mode that
\* is no longer off are the user's, and stay.
C34_UserChangeSurvivesLoad ==
    [][ LoadPreferencesSettled =>
            /\ volume # 75 => volume' = volume
            /\ shuffleMode => shuffleMode' ]_vars

StoredIsCurrent ==
    /\ preferences.volume = {volume}
    /\ preferences.shuffleMode = {shuffleMode}
    /\ preferences.lastTrackIndex = {currentIndex}

\* C35: the debounced write stores volume, shuffleMode and currentIndex as
\* they are when its timer fires, so once a write has been armed and the
\* user's changes have stopped, storage comes to hold the current volume,
\* shuffleMode and lastTrackIndex and keeps them.
C35_StorageCatchesUp ==
    (<>[][~(ToggleShuffle \/ VolumeInput)]_vars /\ <>(preferenceSaveTimeout # <<>>))
        => <>[]StoredIsCurrent

\* C36: whenever no storage operation is in flight (no transaction is
\* open and no handler is waiting on one), currentPlaylistId is null or the
\* id of a playlist that exists in storage.
C36_CurrentPlaylistExists ==
    (txq = <<>> /\ infoq = <<>>)
        => \/ currentPlaylistId = Null
           \/ PlaylistFound(playlists, currentPlaylistId)

C36_Witness ==
    /\ txq = <<>> /\ infoq = <<>>
    /\ currentPlaylistId # Null
    /\ PlaylistFound(playlists, currentPlaylistId)
    /\ playlistKeyGen > Cardinality(playlists)

\* A save of saveCurrentPlaylist that has not run to its end: its
\* transaction, its refresh, its handler or its button timer is pending.
SaveInFlight ==
    \/ \E i \in 1..Len(txq) :
          \/ txq[i].kind = "save"
          \/ txq[i].kind = "list" /\ txq[i].origin = "save"
    \/ \E i \in 1..Len(infoq) : infoq[i].origin \in {"save", "saveFailed"}
    \/ saveBtnTimers # <<>>

\* C37: every save started by saveCurrentPlaylist settles, by success or by
\* failure, and the save button is enabled again afterwards: once the user
\* starts no more saves, no save stays in flight and the button does not
\* stay disabled.
C37_SaveSettlesButtonEnabled ==
    (<>[][~SaveCurrentPlaylist]_vars /\ <>SaveInFlight)
        => <>[](~SaveInFlight /\ ~saveBtnDisabled)

C37_Witness ==
    /\ ~SaveInFlight
    /\ ~saveBtnDisabled
    /\ saveBtnLabel = "Save"
    /\ playlistKeyGen > 0

\* C38: once init has run, under any sequence of slider input, adjustVolume
\* and toggleMute state.volume stays within [0, 1] (0 to 100 percent), and
\* whenever the audio is audible state.volume is the audio element's volume.
C38_VolumeMatchesAudio ==
    initPc = "done"
        => /\ volume \in 0..100
           /\ audioVolume > 0 => volume = audioVolume

\* C39: the fetch strategy is cache-first for static assets and
\* network-only for everything else: a GET for a pre-cached static asset is
\* answered from the cache without contacting the network, and any other
\* request is fetched from the network and not answered from the cache.
C39_CacheFirstElseNetworkOnly ==
    [][ answered' # answered =>
            IF answered'.url \in STATIC_ASSETS /\ answered'.method = "GET"
            THEN answered'.source = "cache" /\ ~answered'.network
            ELSE answered'.source # "cache" /\ answered'.network ]_vars

\* C40: every cache entry the fetch listener has added is a status-200
\* response to a same-origin GET request, and once the worker is activated
\* no cache other than CACHE_NAME exists.
C40_CacheEntriesAndNames ==
    /\ \A entry \in swCache :
           entry.by = "fetch"
               => /\ entry.status = 200
                  /\ entry.method = "GET"
                  /\ entry.origin = LocationOrigin
    /\ swState = "activated" => cacheNames \subseteq {CACHE_NAME}

C40_Witness ==
    /\ swState = "activated"
    /\ \E entry \in swCache : entry.by = "fetch"
    /\ fetches # <<>>

=============================================================================
